---- MODULE Spec2Model ----
(***************************************************************************)
(* Model of the pulse-jump kinematic integrator of                         *)
(* mhm_pulse_jumping_system.py (MHMPulseJumpingSystem) and of the shared   *)
(* lift-force formula; of the rotating tripulse controller of             *)
(* mhm_rotating_tripulse_controller.py; of the minimum-current search of   *)
(* mhm_levitation_mainstream_validation.py; of the report of               *)
(* mhm_industry_standard_tests.py; of the AI controller of                 *)
(* mhm_ac_ai_control_system.py; and of the fractions of                    *)
(* mhm_levitation_miller_math.py.                                          *)
(*                                                                         *)
(* The program computes in double precision; the model computes the same   *)
(* expressions, in the same order, in fixed point:                         *)
(*   height, distance      mm            velocity        mm/s              *)
(*   acceleration          mm/s^2        force, weight   N                 *)
(*   magnetic field        mT            current mult.   1/1000            *)
(*   time                  1e-5 s        phase           1e-4 cycle        *)
(* Every division rounds toward zero.                                      *)
(***************************************************************************)
EXTENDS Integers, Sequences, FiniteSets, TLC

VARIABLES pc, pattern, i, height, velocity, acceleration, force,
          current_profile, result, printed, prev, probe,
          controller, observed, validation, test_suite, now,
          analysis, ai, miller

vars == <<pc, pattern, i, height, velocity, acceleration, force,
          current_profile, result, printed, prev, probe,
          controller, observed, validation, test_suite, now,
          analysis, ai, miller>>

\* the state of the scripts other than the pulse-jump simulation
scripts == <<controller, observed, validation, test_suite, now,
             analysis, ai, miller>>

\* the state of analyze_all_pulse_patterns, of the AI control system and of
\* the Miller Math script
others == <<analysis, ai, miller>>

\* the state of the pulse-jump simulation and of the lift-force evaluation
pulse_jump == <<pc, pattern, i, height, velocity, acceleration, force,
                current_profile, result, printed, prev, probe>>

None == "None"

\* no dict returned (yet)
NoResult == [pattern |-> None]

\* no lift-force evaluation under way
NoProbe == [applied |-> FALSE]

(***************************************************************************)
(* Fixed-point arithmetic standing for the float operators of the source.  *)
(***************************************************************************)
Abs(x) == IF x >= 0 THEN x ELSE -x

\* x / d, rounded toward zero
TDiv(x, d) == IF x >= 0 THEN x \div d ELSE -((-x) \div d)

\* x * n / d for x >= 0 without forming the product x * n
MulDiv(x, n, d) == (x \div d) * n + ((x % d) * n) \div d

\* x * n / d for either sign of x
SMulDiv(x, n, d) == IF x >= 0 THEN MulDiv(x, n, d) ELSE -MulDiv(-x, n, d)

\* largest y in lo..hi with y*y <= n  (np.sqrt)
RECURSIVE SqrtSearch(_, _, _)
SqrtSearch(n, lo, hi) ==
    IF lo >= hi THEN lo
    ELSE LET mid == (lo + hi + 1) \div 2
         IN IF mid * mid <= n THEN SqrtSearch(n, mid, hi)
            ELSE SqrtSearch(n, lo, mid - 1)

np_sqrt(n) == SqrtSearch(n, 0, 46340)

\* y^5 / 1000^4 for y in 0..1000 (y in thousandths)
Pow5(y) ==
    LET y2 == (y * y) \div 1000
        y3 == (y2 * y) \div 1000
        y4 == (y3 * y) \div 1000
    IN (y4 * y) \div 1000

\* largest y in lo..hi with Pow5(y) <= r : the fifth root, in thousandths
RECURSIVE Root5Search(_, _, _)
Root5Search(r, lo, hi) ==
    IF lo >= hi THEN lo
    ELSE LET mid == (lo + hi + 1) \div 2
         IN IF Pow5(mid) <= r THEN Root5Search(r, mid, hi)
            ELSE Root5Search(r, lo, mid - 1)

\* r ** 1.2 for r in 0..1000 (thousandths): r * r^(1/5)
Pow12(r) == (r * Root5Search(r, 0, 1000)) \div 1000

\* np.sin(2 * pi * c) in thousandths, c = phase / 10000 cycles, phase >= 0.
\* Bhaskara's rational form 16u(1-u) / (5 - 4u(1-u)) on each half cycle.
np_sin(phase) ==
    LET ph == phase % 10000
        a  == IF ph < 5000 THEN ph ELSE ph - 5000
        p  == a * (5000 - a)
        s  == (16 * p) \div ((125000000 - 4 * p) \div 1000)
    IN IF ph < 5000 THEN s ELSE -s

Max(a, b) == IF a >= b THEN a ELSE b

(***************************************************************************)
(* MHMPulseJumpingSystem.__init__ : constants of the instance.             *)
(***************************************************************************)
mu0 == 12566                   \* 4*pi*1e-7 N/A^2, in 1e-10 N/A^2
g == 9810                      \* 9.81 m/s^2, in mm/s^2
mass == 794                    \* 79.4 kg, in 0.1 kg
weight == (mass * g) \div 10000        \* mass * g, in N
num_coils == 27
B_static == 1800               \* 1.8 T, in mT
coil_area == 44                \* 0.44 m^2, in 0.01 m^2
N_turns == 216
R_coil2 == 375                 \* 2 * R_coil = 2 * 0.1875 m, in mm
array_factor == 18
max_current_continuous == 300  \* A
max_current_pulse == 2000      \* A
\* the keys of self.pulse_patterns, which analyze_all_pulse_patterns passes
pulse_patterns == {"Single_Boost", "Resonant_Pumping", "Staircase_Climbing",
                   "Tesla_369_Resonance"}

\* variant: the last branch of the if/elif chain tests a misspelt name
PatternNames_misspelt == {"Single_Boost", "Resonant_Pumping",
                          "Staircase_Climbing", "Tesla_369_Resonanse"}

\* the names the if/elif chain of lines 114-141 tests pulse_pattern against
PatternNames == {"Single_Boost", "Resonant_Pumping", "Staircase_Climbing",
                 "Tesla_369_Resonance"}

\* pulse_pattern values a caller can pass: the four keys and any other string
PatternInputs == pulse_patterns \cup {"Unknown"}

(***************************************************************************)
(* simulate_pulse_jump : simulation parameters and initial conditions.     *)
(***************************************************************************)
dt == 100                      \* 0.001 s, in 1e-5 s
total_time == 200000           \* 2.0 s, in 1e-5 s
time_steps == total_time \div dt
Steps == 0 .. (time_steps - 1)
initial_height == 50           \* height[0] = 0.05 m, in mm
min_height == 1                \* 0.001 m, in mm

\* np.zeros(time_steps).  An array of time_steps entries is kept as a tuple:
\* entry k of the array (k in 0 .. time_steps-1) is element k+1 of the tuple.
np_zeros == [k \in 1 .. time_steps |-> 0]

\* arr[k]
At(arr, k) == arr[k + 1]

\* arr[k] = x
Put(arr, k, x) == [arr EXCEPT ![k + 1] = x]

\* t = np.linspace(0, total_time, time_steps) : t[k], in 1e-5 s
TimeAt(k) == MulDiv(k, total_time, time_steps - 1)

\* x * dt for x per second (dt = 0.001 s)
MulDt(x) == TDiv(x, 100000 \div dt)

(***************************************************************************)
(* calculate_field_at_distance(distance, current_multiplier, pulse_mode)   *)
(* distance in mm (>= 0), current_multiplier in thousandths; fields in mT. *)
(***************************************************************************)
calculate_field_at_distance(distance, current_multiplier, pulse_mode) ==
    LET magnet_thickness == 30
        \* B_static * (magnet_thickness / (magnet_thickness + distance))**2
        B_static_d == MulDiv(MulDiv(B_static, magnet_thickness,
                                    magnet_thickness + distance),
                             magnet_thickness, magnet_thickness + distance)
        max_current == IF pulse_mode THEN max_current_pulse
                       ELSE max_current_continuous
        efficiency  == IF pulse_mode THEN 98 ELSE 95
        current     == max_current * current_multiplier        \* mA
        \* N_turns * current * 3 / (2 * R_coil), in A/m
        ampere_turns == (N_turns * current * 3) \div R_coil2
        \* mu0 * that, in mT
        B_coil_base == MulDiv(ampere_turns, mu0, 10000) \div 1000
        \* R_coil / (R_coil + distance), in thousandths
        ratio == IF distance >= 500 * R_coil2 THEN 0
                 ELSE (R_coil2 * 1000) \div (R_coil2 + 2 * distance)
        coil_distance_factor == Pow12(ratio)
        B_coil == MulDiv(MulDiv(MulDiv(B_coil_base, coil_distance_factor, 1000),
                                efficiency, 100),
                         array_factor, num_coils)
    IN [B_total |-> B_static_d + B_coil, B_static |-> B_static_d,
        B_coil |-> B_coil]

(***************************************************************************)
(* calculate_lift_force(B_total) : B_total in mT, result in N.             *)
(*   (B_total**2 * total_area * 0.95) / (2 * mu0)                          *)
(***************************************************************************)
\* variant: the field enters to the first power
calculate_lift_force_linear(B_total) ==
    LET total_area == coil_area * num_coils
    IN SMulDiv(B_total * 10000, (total_area * 95) \div 10, 2 * mu0)

calculate_lift_force(B_total) ==
    LET total_area == coil_area * num_coils
    IN MulDiv(B_total * B_total * 10, (total_area * 95) \div 10, 2 * mu0)

(***************************************************************************)
(* HeightPayloadAnalysis.calculate_lift_force(B_total), the same relation  *)
(* with that script's constants: total_area 0.25 * 9 m^2, efficiency 0.7.  *)
(***************************************************************************)
HPA_total_area == 225          \* A_coil * num_coils = 2.25 m^2, in 0.01 m^2
HPA_efficiency == 70           \* 0.7, in percent

HPA_calculate_lift_force(B_total) ==
    MulDiv(B_total * B_total, HPA_total_area * HPA_efficiency, 2 * mu0)

(***************************************************************************)
(* The pulse pattern: current_mult of step k (thousandths), lines 112-141. *)
(* h is the height array as it stands when step k begins.                  *)
(***************************************************************************)
\* variant: the sine term is not halved
ResonantMult_notHalved(s) == 150 + (850 * (1000 + s)) \div 1000

\* line 124: 0.15 + 0.85 * (1 + sin) / 2
ResonantMult(s) == 150 + (850 * (1000 + s)) \div 2000

CurrentMult(p, k, h) ==
    LET time == TimeAt(k)
    IN CASE p = "Single_Boost" ->
              IF 50000 <= time /\ time <= 60000 THEN 1000 ELSE 150
         [] p = "Resonant_Pumping" ->
              LET prev_k == Max(0, k - 1)
                  \* np.sqrt(self.g / height[max(0, i-1)]), in 0.01 Hz
                  natural_freq == np_sqrt((g * 10000) \div At(h, prev_k))
                  s == np_sin((natural_freq * time) \div 1000)
              IN ResonantMult(s)
         [] p = "Staircase_Climbing" ->
              LET pulse_times == {20000, 60000, 100000, 140000}
              IN IF \E pulse_time \in pulse_times :
                        pulse_time <= time /\ time <= pulse_time + 10000
                 THEN 800 ELSE 150
         [] p = "Tesla_369_Resonance" ->
              LET s3 == np_sin((3 * time) \div 10)
                  s6 == np_sin((6 * time) \div 10)
                  s9 == np_sin((9 * time) \div 10)
              IN Max(50, 150 + TDiv(300 * (s3 + s6 + s9), 3000))

(***************************************************************************)
(* Physics integration, lines 153-163.                                     *)
(***************************************************************************)
\* variant: the weight is taken off the net force a second time
Acceleration_weightTwice(net_force) == SMulDiv(net_force - weight, 10000, mass)

\* acceleration[i] = net_force / self.mass : N / (0.1 kg) -> mm/s^2
Acceleration(net_force) == SMulDiv(net_force, 10000, mass)

\* variant: the position update uses the velocity just computed
EulerStep_newVelocity(h, v, a, k) ==
    [velocity |-> At(v, k-1) + MulDt(At(a, k-1)),
     height   |-> At(h, k-1) + MulDt(At(v, k-1) + MulDt(At(a, k-1)))]

\* lines 157-158 for step k >= 1, from the arrays as they stand
EulerStep(h, v, a, k) ==
    [velocity |-> At(v, k-1) + MulDt(At(a, k-1)),
     height   |-> At(h, k-1) + MulDt(At(v, k-1))]

\* variant: the height is clamped and the velocity kept
GroundConstraint_keepVelocity(hv) ==
    IF hv.height < min_height
    THEN [velocity |-> hv.velocity, height |-> min_height]
    ELSE hv

\* variant: no ground constraint
GroundConstraint_absent(hv) == hv

\* lines 160-163
GroundConstraint(hv) ==
    IF hv.height < min_height THEN [velocity |-> 0, height |-> min_height]
    ELSE hv

(***************************************************************************)
(* Analysis, lines 165-182.                                                *)
(***************************************************************************)
\* order of <<km, mm>> pairs
LexLE(x, y) == x[1] < y[1] \/ (x[1] = y[1] /\ x[2] <= y[2])

\* x <= y in the order ord: "int" on numbers, "lex" on <<km, mm>> pairs,
\* "lex_reversed" the latter turned round
Leq(ord, x, y) ==
    CASE ord = "int" -> x <= y
      [] ord = "lex" -> LexLE(x, y)
      [] ord = "lex_reversed" -> LexLE(y, x)

\* first index of lo..hi holding the largest arr value in the order ord,
\* found by halving the range
RECURSIVE ArgMaxIn(_, _, _, _)
ArgMaxIn(arr, ord, lo, hi) ==
    IF lo >= hi THEN lo
    ELSE LET mid == (lo + hi) \div 2
             l == ArgMaxIn(arr, ord, lo, mid)
             r == ArgMaxIn(arr, ord, mid + 1, hi)
         IN IF Leq(ord, At(arr, r), At(arr, l)) THEN l ELSE r

\* np.argmax(arr) : the first index holding the maximum
np_argmax(arr) == ArgMaxIn(arr, "int", 0, time_steps - 1)

\* np.max(arr)
np_max(arr) == At(arr, np_argmax(arr))

\* (0.5*mass*v**2 + mass*g*h) / (mass*g) = v**2 / (2*g) + h, in mm, as the
\* pair <<whole km, remaining mm>> : the value exceeds 2^31 mm.
\* v*v is formed on the base-1000 digits of |v| and divided digit by digit.
EnergyHeight(v, h) ==
    LET a  == Abs(v)
        v0 == a % 1000
        v1 == (a \div 1000) % 1000
        v2 == a \div 1000000
        d  == 2 * g
        c4 == v2 * v2
        c3 == 2 * v1 * v2
        c2 == 2 * v0 * v2 + v1 * v1
        c1 == 2 * v0 * v1
        c0 == v0 * v0
        t3 == (c4 % d) * 1000 + c3
        t2 == (t3 % d) * 1000 + c2
        t1 == (t2 % d) * 1000 + c1
        t0 == (t1 % d) * 1000 + c0
        km == (c4 \div d) * 1000000 + (t3 \div d) * 1000 + (t2 \div d)
        mm == (t1 \div d) * 1000 + (t0 \div d) + (h % 1000000)
    IN <<km + (h \div 1000000) + (mm \div 1000000), mm % 1000000>>

\* total_energy = kinetic_energy + potential_energy, per unit weight
TotalEnergy(h, v) ==
    [k \in 1 .. time_steps |-> EnergyHeight(At(v, k - 1), At(h, k - 1))]

\* variant: np.min in place of np.max
energy_height_equivalent_min(h, v) ==
    LET total_energy == TotalEnergy(h, v)
    IN At(total_energy, ArgMaxIn(total_energy, "lex_reversed", 0, time_steps - 1))

\* np.max(total_energy) / (mass * g), lines 179-180
energy_height_equivalent(h, v) ==
    LET total_energy == TotalEnergy(h, v)
    IN At(total_energy, ArgMaxIn(total_energy, "lex", 0, time_steps - 1))

(***************************************************************************)
(* Python values: None and a value that is not None, and their truth.      *)
(***************************************************************************)
PyNone == [none |-> TRUE]

Some(x) == [none |-> FALSE, value |-> x]

\* truth of an optional number in `if x:` : None and 0 are false
Truthy(x) == ~x.none /\ x.value # 0

(***************************************************************************)
(* MHMRotatingTripulseController.__init__ : the attributes after           *)
(* construction.  throttle, global_amplitude, yaw_rate, pitch and roll in  *)
(* thousandths; rotation_speed in 1/2000 Hz; currents in mA.               *)
(***************************************************************************)
RTC_num_coils == 9
active_coils == 3
control_frequency == 1000      \* Hz
I_hover == 15000               \* 15.0 A, in mA
Coils == 0 .. (RTC_num_coils - 1)

\* self.rotation_speed = 111 (Hz), line 35, and the 111 of line 109
base_rotation_speed == 111

ConstructedController ==
    [step |-> 0,
     rotation_direction |-> 1,
     global_amplitude |-> 1000,
     coil_bias |-> [c \in Coils |-> 0],
     throttle |-> 500,
     yaw_rate |-> 0,
     pitch |-> 0,
     roll |-> 0,
     rotation_speed |-> base_rotation_speed * 2000]

\* no method of the controller has been called
NoCall == [op |-> "none"]

OthersIdle ==
    /\ analysis = [pc |-> "idle"]
    /\ ai = [pc |-> "idle"]
    /\ miller = [pc |-> "idle"]

IntLT(x, y) == x < y

\* sorted(xs) for a list of numbers
sorted(xs) == SortSeq(xs, IntLT)

\* the values of a list
Range(xs) == {xs[k] : k \in DOMAIN xs}

\* variant: the triangle is spaced 2 positions apart
get_active_coils_spacing2(self, step) ==
    LET active_indices ==
            [k \in 1 .. active_coils |->
                (step * self.rotation_direction + (k - 1) * 2) % RTC_num_coils]
    IN sorted(active_indices)

\* variant: the triangle does not rotate with the step
get_active_coils_noRotation(self, step) ==
    LET active_indices ==
            [k \in 1 .. active_coils |->
                (step * self.rotation_direction * 3 + (k - 1) * 3) % RTC_num_coils]
    IN sorted(active_indices)

\* get_active_coils(self, step), lines 58-66; % is Python's, with results in
\* 0 .. num_coils-1 for either sign of the left operand
get_active_coils(self, step) ==
    LET active_indices ==
            [k \in 1 .. active_coils |->
                (step * self.rotation_direction + (k - 1) * 3) % RTC_num_coils]
    IN sorted(active_indices)

\* np.cos(2 * pi * c), c = phase / 10000 cycles, in thousandths
np_cos(phase) == np_sin(phase + 2500)

\* self.coil_angles[coil_idx] = 2*pi*coil_idx/9, line 55, in 1e-4 cycle
coil_angles(coil_idx) == (coil_idx * 10000) \div RTC_num_coils

\* lines 80-93 for one active coil: the current in mA
CoilCurrent(self, coil_idx) ==
    LET base_current == (I_hover * self.global_amplitude) \div 1000
        bias_factor  == 1000 + self.coil_bias[coil_idx]
        coil_angle   == coil_angles(coil_idx)
        pitch_bias   == TDiv(self.pitch * np_cos(coil_angle) * 3, 10000)
        roll_bias    == TDiv(self.roll * np_sin(coil_angle) * 3, 10000)
        combined     == SMulDiv(SMulDiv(base_current, bias_factor, 1000),
                                1000 + pitch_bias + roll_bias, 1000)
    IN Max(0, combined)

\* variant: every coil is driven, not only the active triangle
calculate_coil_currents_allCoils(self, step) ==
    [c \in Coils |-> CoilCurrent(self, c)]

\* calculate_coil_currents(self, step), lines 68-95: np.zeros, then the
\* active coils are assigned
calculate_coil_currents(self, step) ==
    LET active == get_active_coils(self, step)
    IN [c \in Coils |-> IF c \in Range(active) THEN CoilCurrent(self, c) ELSE 0]

\* variant: the upper limit is not applied
np_clip_lowerOnly(x, lo, hi) == IF x < lo THEN lo ELSE x

\* np.clip(x, lo, hi) for finite numbers
np_clip(x, lo, hi) == IF x < lo THEN lo ELSE IF x > hi THEN hi ELSE x

\* update_flight_controls(self, throttle, yaw, pitch, roll), lines 97-115:
\* the attributes after the call; an argument is PyNone or Some(number)
update_flight_controls(self, throttle, yaw, pitch, roll) ==
    LET s1 == IF throttle.none THEN self
              ELSE [self EXCEPT
                      !.throttle = np_clip(throttle.value, 0, 1000),
                      !.global_amplitude = np_clip(throttle.value, 0, 1000)]
        s2 == IF yaw.none THEN s1
              ELSE LET yaw_rate == np_clip(yaw.value, -1000, 1000)
                       \* 1.0 + yaw_rate * 0.5, in 1/2000
                       speed_modifier == 2000 + yaw_rate
                   IN [s1 EXCEPT !.yaw_rate = yaw_rate,
                                 !.rotation_speed = 111 * speed_modifier]
        s3 == IF pitch.none THEN s2
              ELSE [s2 EXCEPT !.pitch = np_clip(pitch.value, -1000, 1000)]
    IN IF roll.none THEN s3
       ELSE [s3 EXCEPT !.roll = np_clip(roll.value, -1000, 1000)]

\* generate_pwm_waveform, lines 128-138: duration in ms.  num_steps,
\* time_array[k] in 1e-4 s and the step of sample k
PwmNumSteps(duration) == (duration * control_frequency) \div 1000

PwmTime(duration, k) ==
    IF PwmNumSteps(duration) <= 1 THEN 0
    ELSE (k * duration * 10) \div (PwmNumSteps(duration) - 1)

PwmStep(self, duration, k) ==
    ((PwmTime(duration, k) * self.rotation_speed) \div 20000000) % RTC_num_coils

(***************************************************************************)
(* calculate_mainstream_levitation: its constants and arrays.  Currents    *)
(* are in mA, fields in 1e-4 T, forces in N, masses in kg.                 *)
(***************************************************************************)
MV_mu0 == 12566                \* 4*pi*1e-7 N/A^2, in 1e-10 N/A^2
MV_g == 9810                   \* 9.81 m/s^2, in mm/s^2
MV_mass == 120                 \* kg
MV_area == 25                  \* 0.25 m^2, in 0.01 m^2
MV_B_static == 13000           \* 1.3 T
MV_N_turns == 108
MV_radius == 125               \* 0.125 m, in mm
MV_sweep_start == 1            \* A
MV_sweep_stop == 150           \* A
MV_sweep_num == 100

SweepIndex == 0 .. (MV_sweep_num - 1)

\* force_needed = mass * g
force_needed(m) == (m * MV_g) \div 1000

\* currents = np.linspace(1, 150, 100) : currents[k]
currents(k) ==
    MV_sweep_start * 1000
        + (k * (MV_sweep_stop - MV_sweep_start) * 1000) \div (MV_sweep_num - 1)

\* B_coil = (mu0 * N_turns * currents) / (2 * radius)
B_coil(k) == (((MV_mu0 * MV_N_turns) \div 1000) * currents(k)) \div (2 * MV_radius * 1000)

\* B_total = B_static + B_coil
B_total(k) == MV_B_static + B_coil(k)

\* F_lift = (B_total**2 * area) / (2 * mu0)
F_lift(k) == MulDiv(B_total(k) * B_total(k), MV_area, 2 * MV_mu0)

\* np.where(F_lift >= force_needed)[0] : the qualifying indices, ascending
np_where(m) ==
    LET S == {k \in SweepIndex : F_lift(k) >= force_needed(m)}
    IN [j \in 1 .. Cardinality(S) |->
           CHOOSE k \in S : Cardinality({x \in S : x < k}) = j - 1]

\* variant: the last qualifying sample is taken
PickIndex_last(idx_array) == idx_array[Len(idx_array)]

\* idx = idx_array[0]
PickIndex(idx_array) == idx_array[1]

(***************************************************************************)
(* The scripts other than the pulse-jump simulation, before they run.      *)
(***************************************************************************)
ScriptsIdle ==
    /\ controller = ConstructedController
    /\ observed = NoCall
    /\ validation = [pc |-> "idle", mass |-> MV_mass]
    /\ test_suite = [pc |-> "idle"]
    /\ now = 0
    /\ OthersIdle

(***************************************************************************)
(* State.  pc is the position of the caller: "idle" before any call,       *)
(* "loop" inside the step loop of simulate_pulse_jump (i is the loop       *)
(* index), "done" after it returned, "raised" after it raised.  result is  *)
(* the returned dict, printed what the call printed, prev the dict the     *)
(* preceding call returned.                                                *)
(***************************************************************************)
\* variant: the buffer of the earlier call is used again
FreshHeight_reuse(old) == Put(old, 0, initial_height)

\* height = np.zeros(time_steps); height[0] = 0.05 (lines 100, 107).  old is
\* the array an earlier call left behind, which np.zeros does not look at.
FreshHeight(old) == Put(np_zeros, 0, initial_height)

InitCall ==
    /\ pc = "idle"
    /\ pattern = None
    /\ i = 0
    /\ height = np_zeros
    /\ velocity = np_zeros
    /\ acceleration = np_zeros
    /\ force = np_zeros
    /\ current_profile = np_zeros
    /\ result = NoResult
    /\ printed = None
    /\ prev = NoResult

Init == InitCall /\ probe = NoProbe /\ ScriptsIdle

\* a script that does not construct MHMPulseJumpSimulator: no arrays exist
NoSimulator ==
    /\ pc = "idle"
    /\ pattern = None
    /\ i = 0
    /\ height = << >>
    /\ velocity = << >>
    /\ acceleration = << >>
    /\ force = << >>
    /\ current_profile = << >>
    /\ result = NoResult
    /\ printed = None
    /\ prev = NoResult
    /\ probe = NoProbe

\* simulate_pulse_jump(pulse_pattern = p) is entered: lines 93-108
Call(p) ==
    /\ pc \in {"idle", "done", "raised"}
    /\ pc' = "loop"
    /\ pattern' = p
    /\ i' = 0
    /\ height' = FreshHeight(height)
    /\ velocity' = np_zeros
    /\ acceleration' = np_zeros
    /\ force' = np_zeros
    /\ current_profile' = np_zeros
    /\ prev' = IF pc = "done" THEN result ELSE prev
    /\ result' = NoResult
    /\ printed' = None
    /\ UNCHANGED <<probe, scripts>>

\* net force of pass k as the code computes it, lines 146-150: the field is
\* taken at height[k], read before line 158 assigns it
NetForce(h, k, current_mult) ==
    LET B == calculate_field_at_distance(At(h, k), current_mult, TRUE)
        lift_force == calculate_lift_force(B.B_total)
    IN lift_force - weight

\* where the net force of a pass comes from: the field (lines 146-150), or a
\* value f put in its place
FromField == [given |-> FALSE]

Given(f) == [given |-> TRUE, net_force |-> f]

ForceOf(src, h, k, current_mult) ==
    IF src.given THEN src.net_force ELSE NetForce(h, k, current_mult)

\* one pass of `for i in range(time_steps)` at index k, lines 112-163, on the
\* arrays st of pattern p, the net force coming from src
LoopPass(st, p, k, src) ==
    LET current_mult == CurrentMult(p, k, st.height)
        net_force == ForceOf(src, st.height, k, current_mult)
        acc == Put(st.acceleration, k, Acceleration(net_force))
        hv  == IF k > 0
               THEN GroundConstraint(EulerStep(st.height, st.velocity, acc, k))
               ELSE [velocity |-> At(st.velocity, k), height |-> At(st.height, k)]
    IN [height |-> Put(st.height, k, hv.height),
        velocity |-> Put(st.velocity, k, hv.velocity),
        acceleration |-> acc,
        force |-> Put(st.force, k, net_force),
        current_profile |-> Put(st.current_profile, k, current_mult)]

\* the passes lo .. hi in order.  The range is halved, and the arrays after
\* the first half are evaluated (the IF) before the second half is entered,
\* which keeps the nesting of the evaluation logarithmic in hi - lo.
RECURSIVE LoopPasses(_, _, _, _, _)
LoopPasses(st, p, src, lo, hi) ==
    IF lo > hi THEN st
    ELSE IF lo = hi THEN LoopPass(st, p, lo, src)
    ELSE LET mid  == (lo + hi) \div 2
             half == LoopPasses(st, p, src, lo, mid)
         IN IF DOMAIN half # {}
            THEN LoopPasses(half, p, src, mid + 1, hi)
            ELSE half

\* the loop is sequential and shares nothing with any other activity, so one
\* action runs up to PassesPerStep consecutive passes
PassesPerStep == 100

Arrays ==
    [height |-> height, velocity |-> velocity, acceleration |-> acceleration,
     force |-> force, current_profile |-> current_profile]

\* the passes i .. n-1 are run, the net force coming from src
RunTo(n, src) ==
    LET st == LoopPasses(Arrays, pattern, src, i, n - 1)
    IN /\ height' = st.height
       /\ velocity' = st.velocity
       /\ acceleration' = st.acceleration
       /\ force' = st.force
       /\ current_profile' = st.current_profile
       /\ i' = n
       /\ UNCHANGED <<pc, pattern, result, printed, prev, probe, scripts>>

Min(x, y) == IF x <= y THEN x ELSE y

\* the next passes of the loop, lines 111-163
Step ==
    /\ pc = "loop"
    /\ i < time_steps
    /\ pattern \in PatternNames
    /\ RunTo(Min(i + PassesPerStep, time_steps), FromField)

\* no branch of lines 114-141 binds current_mult: line 143 raises
Raise ==
    /\ pc = "loop"
    /\ i < time_steps
    /\ pattern \notin PatternNames
    /\ pc' = "raised"
    /\ UNCHANGED <<pattern, i, height, velocity, acceleration, force,
                   current_profile, result, printed, prev, probe, scripts>>

\* variant: linspace is asked for one sample too many
np_linspace_extraSample ==
    [k \in 1 .. (time_steps + 1) |-> MulDiv(k - 1, total_time, time_steps)]

\* t = np.linspace(0, total_time, time_steps), line 99
np_linspace == [k \in 1 .. time_steps |-> TimeAt(k - 1)]

\* variant: the energy entry is left out of the dict
ReturnDict_noEnergy(max_height, energy_height) ==
    [pattern |-> pattern,
     time |-> np_linspace,
     height |-> height,
     velocity |-> velocity,
     force |-> force,
     current |-> current_profile,
     max_height |-> max_height]

\* the dict of lines 184-192; pattern records the argument of the call, which
\* the code's dict does not hold
ReturnDict(max_height, energy_height) ==
    [pattern |-> pattern,
     time |-> np_linspace,
     height |-> height,
     velocity |-> velocity,
     force |-> force,
     current |-> current_profile,
     max_height |-> max_height,
     energy_height |-> energy_height]

\* lines 165-192: the summary is printed and the dict returned.  Heights of
\* the summary and of the dict stay in mm (the code scales all of them by the
\* same factor 100 to cm).
Analysis ==
    /\ pc = "loop"
    /\ i = time_steps
    /\ LET max_height == np_max(height)
           max_height_time == TimeAt(np_argmax(height))
           final_height == At(height, time_steps - 1)
           energy_height == energy_height_equivalent(height, velocity)
       IN /\ printed' = [max_height |-> max_height,
                         max_height_time |-> max_height_time,
                         final_height |-> final_height,
                         energy_height |-> energy_height]
          /\ result' = ReturnDict(max_height, energy_height)
    /\ pc' = "done"
    /\ UNCHANGED <<pattern, i, height, velocity, acceleration, force,
                   current_profile, prev, probe, scripts>>

Next ==
    \/ \E p \in PatternInputs : Call(p)
    \/ Step
    \/ Raise
    \/ Analysis

Spec == Init /\ [][Next]_vars

(***************************************************************************)
(* The integrator under an arbitrary net force: one call in which lines    *)
(* 146-150 are replaced by a net force f taken from ForceInputs, the rest  *)
(* of the loop body being the code's.  The first MaxSteps passes take any  *)
(* force, one pass at a time; beyond them only the run whose net force was *)
(* zero at every pass is followed to the end of the loop.                  *)
(***************************************************************************)
MaxSteps == 5

\* net forces in N: -20000 m/s^2, 0 and +1000 m/s^2 on the 79.4 kg mass
ForceInputs == {-1588000, 0, 79400}

\* one pass with the net force f
StepForced(f) ==
    /\ pc = "loop"
    /\ i < MaxSteps
    /\ pattern \in PatternNames
    /\ RunTo(i + 1, Given(f))

\* the next passes of a run whose net force has been zero throughout, with
\* zero net force
StepSteady ==
    /\ pc = "loop"
    /\ MaxSteps <= i
    /\ i < time_steps
    /\ pattern \in PatternNames
    /\ {At(force, k) : k \in 0 .. (i - 1)} \subseteq {0}
    /\ RunTo(Min(i + PassesPerStep, time_steps), Given(0))

NextForce ==
    \/ \E p \in PatternInputs : pc = "idle" /\ Call(p)
    \/ \E f \in ForceInputs : StepForced(f)
    \/ StepSteady
    \/ Raise
    \/ Analysis

SpecForce == Init /\ [][NextForce]_vars

(***************************************************************************)
(* The lift-force relation as a pure function: two field values B1, B2     *)
(* (mT) are drawn and both calculate_lift_force methods applied to each.   *)
(***************************************************************************)
LiftRange == 8

ProbeInputs == UNION {{k, 250 * k} : k \in (-LiftRange) .. LiftRange}

InitLift ==
    /\ InitCall
    /\ ScriptsIdle
    /\ probe \in [B1 : ProbeInputs, B2 : ProbeInputs, applied : {FALSE},
                  F1 : {0}, F2 : {0}, G1 : {0}, G2 : {0}]

ApplyLift ==
    /\ ~probe.applied
    /\ probe' = [probe EXCEPT !.applied = TRUE,
                              !.F1 = calculate_lift_force(probe.B1),
                              !.F2 = calculate_lift_force(probe.B2),
                              !.G1 = HPA_calculate_lift_force(probe.B1),
                              !.G2 = HPA_calculate_lift_force(probe.B2)]
    /\ UNCHANGED <<pc, pattern, i, height, velocity, acceleration, force,
                   current_profile, result, printed, prev, scripts>>

NextLift == ApplyLift

SpecLift == InitLift /\ [][NextLift]_vars

(***************************************************************************)
(* The rotating tripulse controller driven by any caller: any sequence of  *)
(* update_flight_controls calls, of sweeps of get_active_coils and of      *)
(* calculate_coil_currents over a range of steps, and of                   *)
(* generate_pwm_waveform calls.  rotation_direction is 1 or -1 (line 44).  *)
(***************************************************************************)
MaxStep == 9

StepInputs == (-MaxStep) .. MaxStep

\* arguments of update_flight_controls, in thousandths, and None
ControlValues == {-1500, 600, 1500}

ControlArgs == {PyNone} \cup {Some(x) : x \in ControlValues}

\* duration_seconds of generate_pwm_waveform, in ms
PwmDuration == 100

DurationInputs == {1, PwmDuration}

InitController ==
    /\ NoSimulator
    /\ controller \in {[ConstructedController EXCEPT !.rotation_direction = d] :
                         d \in {1, -1}}
    /\ observed = NoCall
    /\ validation = [pc |-> "idle", mass |-> MV_mass]
    /\ test_suite = [pc |-> "idle"]
    /\ now = 0
    /\ OthersIdle

UpdateFlightControls ==
    \E throttle \in ControlArgs, yaw \in ControlArgs,
       pitch \in ControlArgs, roll \in ControlArgs :
        /\ controller' = update_flight_controls(controller, throttle, yaw,
                                                 pitch, roll)
        /\ observed' = [op |-> "update_flight_controls"]
        /\ UNCHANGED <<pulse_jump, validation, test_suite, now, others>>

\* get_active_coils(step) for each step of StepInputs
SweepActiveCoils ==
    /\ observed' = [op |-> "get_active_coils",
                    active_indices |->
                        [step \in StepInputs |-> get_active_coils(controller, step)]]
    /\ UNCHANGED <<pulse_jump, controller, validation, test_suite, now, others>>

\* calculate_coil_currents(step) for each step of StepInputs
SweepCoilCurrents ==
    /\ observed' = [op |-> "calculate_coil_currents",
                    currents |->
                        [step \in StepInputs |->
                            calculate_coil_currents(controller, step)]]
    /\ UNCHANGED <<pulse_jump, controller, validation, test_suite, now, others>>

\* generate_pwm_waveform(duration), lines 117-149.  The two arrays are kept
\* sample by sample: coil_currents[k][c] is the code's coil_currents[c, k-1].
GeneratePwmWaveform ==
    \E duration \in DurationInputs :
        LET num_steps == PwmNumSteps(duration)
            samples == 1 .. num_steps
            step_at(k) == PwmStep(controller, duration, k - 1)
        IN /\ controller' = IF num_steps = 0 THEN controller
                            ELSE [controller EXCEPT !.step = step_at(num_steps)]
           /\ observed' =
                 [op |-> "generate_pwm_waveform",
                  time_array |-> [k \in samples |-> PwmTime(duration, k - 1)],
                  steps |-> [k \in samples |-> step_at(k)],
                  coil_currents |->
                      [k \in samples |->
                          calculate_coil_currents(controller, step_at(k))],
                  active_pattern |->
                      [k \in samples |->
                          [c \in Coils |->
                              IF c \in Range(get_active_coils(controller, step_at(k)))
                              THEN 1 ELSE 0]]]
           /\ UNCHANGED <<pulse_jump, validation, test_suite, now, others>>

NextController ==
    \/ UpdateFlightControls
    \/ SweepActiveCoils
    \/ SweepCoilCurrents
    \/ GeneratePwmWaveform

SpecController == InitController /\ [][NextController]_vars

(***************************************************************************)
(* mhm_levitation_mainstream_validation.py: main calls                     *)
(* calculate_mainstream_levitation and then prints its summary.  The mass  *)
(* is the constant of line 27, 120 kg, for which the first sample of the   *)
(* sweep already lifts; the other masses stand for that constant edited,   *)
(* so that the search ends inside the sweep or finds nothing.              *)
(***************************************************************************)
MassRange == 100

MassInputs == {MV_mass} \cup {17000 + 25 * k : k \in 0 .. MassRange}

InitValidation ==
    /\ NoSimulator
    /\ controller = ConstructedController
    /\ observed = NoCall
    /\ validation \in {[pc |-> "idle", mass |-> m] : m \in MassInputs}
    /\ test_suite = [pc |-> "idle"]
    /\ now = 0
    /\ OthersIdle

\* results = calculate_mainstream_levitation(), lines 15-131 and 201
CalculateMainstreamLevitation ==
    /\ validation.pc = "idle"
    /\ LET m == validation.mass
           idx_array == np_where(m)
           found == Len(idx_array) > 0
       IN validation' =
            [pc |-> "returned",
             mass |-> m,
             printed |-> IF found THEN "MAINSTREAM PHYSICS RESULTS"
                         ELSE "Current range insufficient for lift!",
             results |->
                 [currents |-> [k \in SweepIndex |-> currents(k)],
                  F_lift |-> [k \in SweepIndex |-> F_lift(k)],
                  B_total |-> [k \in SweepIndex |-> B_total(k)],
                  force_needed |-> force_needed(m),
                  required_current |->
                      IF found THEN Some(currents(PickIndex(idx_array)))
                      ELSE PyNone]]
    /\ UNCHANGED <<pulse_jump, controller, observed, test_suite, now, others>>

\* the rest of main, lines 203-220
MainSummary ==
    /\ validation.pc = "returned"
    /\ validation' =
         [pc |-> "finished",
          mass |-> validation.mass,
          printed |-> validation.printed,
          results |-> validation.results,
          key_finding |-> Truthy(validation.results.required_current)]
    /\ UNCHANGED <<pulse_jump, controller, observed, test_suite, now, others>>

NextValidation ==
    \/ CalculateMainstreamLevitation
    \/ MainSummary

SpecValidation == InitValidation /\ [][NextValidation]_vars

(***************************************************************************)
(* mhm_industry_standard_tests.py: main constructs the suite, runs the six *)
(* tests in order and generates the report.  The numerics of the tests are *)
(* not modelled: each test computes its verdict from hardcoded constants   *)
(* only, so the verdicts are one table, fixed for the program and the same *)
(* in every run, and any table is admitted.  An entry keeps its verdict    *)
(* fields and whether it holds a numpy.bool_, which json.dump rejects.     *)
(* A caller may also store an entry without a verdict field, the case of   *)
(* line 579; ISO_9001 is a standard of self.standards without a test.      *)
(***************************************************************************)
standards ==
    {"IEEE_519", "IEC_61000", "IEEE_1547", "IEC_62040", "MIL_STD_461",
     "DO_160", "ISO_9001", "IEC_61508"}

system_params ==
    [num_coils |-> 9, rated_current |-> 15000, rated_voltage |-> 48000,
     rated_power |-> 434000, control_frequency |-> 1000, pwm_frequency |-> 5000,
     operating_temp_range |-> <<-20, 85>>, hover_height |-> 90,
     payload_capacity |-> 120]

\* the tests of main, in the order of lines 644-657
MainOrder ==
    <<"IEEE_519", "IEC_61000", "MIL_STD_461", "DO_160", "IEC_61508", "Performance">>

TestNames == Range(MainOrder)

\* the entry a test stores in self.test_results, given the verdict v it
\* computed: lines 125-131, 196-202, 278-281, 362-366, 470-476, 555-558
Entry(name, v) ==
    CASE name = "IEEE_519" ->
            \* thd_compliant and harmonic_compliant are numpy comparisons
            [fields |-> ("overall_pass" :> v), numpy_bool |-> TRUE]
      [] name = "DO_160" ->
            [fields |-> ("overall_pass" :> v) @@ ("aviation_ready" :> v),
             numpy_bool |-> FALSE]
      [] name = "IEC_61508" ->
            [fields |-> ("sil_compliant" :> v), numpy_bool |-> FALSE]
      [] OTHER ->
            [fields |-> ("overall_pass" :> v), numpy_bool |-> FALSE]

\* an entry with measurements only
UnjudgedEntry == [fields |-> ("measured" :> TRUE), numpy_bool |-> FALSE]

\* d[k] = x
Store(d, k, x) == (k :> x) @@ d

\* d.get(k, default)
dict_get(d, k, default) == IF k \in DOMAIN d THEN d[k] ELSE default

\* variant: the sil_compliant field is not consulted
test_pass_ignoresSil(results) ==
    IF "overall_pass" \in DOMAIN results.fields
    THEN results.fields["overall_pass"]
    ELSE TRUE

\* lines 574-579
test_pass(results) ==
    IF "overall_pass" \in DOMAIN results.fields
    THEN results.fields["overall_pass"]
    ELSE IF "sil_compliant" \in DOMAIN results.fields
         THEN results.fields["sil_compliant"]
         ELSE TRUE

\* the loop of lines 573-583 over the entries named in todo:
\* acc = [test_summary, overall_pass]
RECURSIVE SummaryLoop(_, _, _)
SummaryLoop(test_results, todo, acc) ==
    IF todo = {} THEN acc
    ELSE LET test_name == CHOOSE n \in todo : TRUE
             passed == test_pass(test_results[test_name])
         IN SummaryLoop(test_results, todo \ {test_name},
                        [test_summary |-> Store(acc.test_summary, test_name, passed),
                         overall_pass |-> IF ~passed THEN FALSE ELSE acc.overall_pass])

\* sum(test_summary.values()) over the tests named in todo
RECURSIVE SumValues(_, _)
SumValues(test_summary, todo) ==
    IF todo = {} THEN 0
    ELSE LET n == CHOOSE x \in todo : TRUE
         IN (IF test_summary[n] THEN 1 ELSE 0) + SumValues(test_summary, todo \ {n})

\* lines 599-605
certifications(test_summary, overall_pass) ==
    [CE_Marking |-> overall_pass /\ dict_get(test_summary, "IEC_61000", FALSE),
     FCC_Part_15 |-> dict_get(test_summary, "IEEE_519", FALSE),
     Military_Use |-> dict_get(test_summary, "MIL_STD_461", FALSE),
     Aviation_Use |-> dict_get(test_summary, "DO_160", FALSE),
     Functional_Safety |-> dict_get(test_summary, "IEC_61508", FALSE)]

\* variant: the summary is stamped with the date as well
report_data_datedSummary(test_date, test_results, test_summary, overall_pass, certs) ==
    [test_date |-> test_date,
     system_info |-> system_params,
     standards_tested |-> standards,
     test_results |-> test_results,
     test_summary |-> Store(test_summary, "date", test_date),
     overall_pass |-> overall_pass,
     certification_readiness |-> certs]

\* lines 612-620
report_data(test_date, test_results, test_summary, overall_pass, certs) ==
    [test_date |-> test_date,
     system_info |-> system_params,
     standards_tested |-> standards,
     test_results |-> test_results,
     test_summary |-> test_summary,
     overall_pass |-> overall_pass,
     certification_readiness |-> certs]

\* bound on the clock datetime.now() reads
MaxClock == 2

\* bound on the number of runs of the script
MaxRuns == 2

\* test_suite = MHMIndustryStandardTests(), line 638, in run number runs
Constructed(computed, runs, previous) ==
    [pc |-> "constructed", computed |-> computed, runs |-> runs,
     test_results |-> << >>, next |-> 1, previous |-> previous]

InitReport ==
    /\ NoSimulator
    /\ controller = ConstructedController
    /\ observed = NoCall
    /\ validation = [pc |-> "idle", mass |-> MV_mass]
    /\ test_suite \in {Constructed(computed, 1, PyNone) :
                          computed \in [TestNames -> BOOLEAN]}
    /\ now = 0
    /\ OthersIdle

\* the next test of main, lines 644-657
RunTest ==
    /\ test_suite.pc = "constructed"
    /\ test_suite.next <= Len(MainOrder)
    /\ LET name == MainOrder[test_suite.next]
       IN test_suite' =
            [test_suite EXCEPT
               !.test_results = Store(@, name, Entry(name, test_suite.computed[name])),
               !.next = @ + 1]
    /\ UNCHANGED <<pulse_jump, controller, observed, validation, now, others>>

\* a caller stores an entry without a verdict field
StoreUnjudged ==
    /\ test_suite.pc = "constructed"
    /\ "ISO_9001" \notin DOMAIN test_suite.test_results
    /\ test_suite' =
         [test_suite EXCEPT !.test_results = Store(@, "ISO_9001", UnjudgedEntry)]
    /\ UNCHANGED <<pulse_jump, controller, observed, validation, now, others>>

\* generate_test_report(), lines 562-628, after the tests of main.  The
\* file holds what json.dump wrote before it returned or raised: the date
\* comes first, and an entry with a numpy.bool_ ends the dump (TypeError).
GenerateTestReport ==
    /\ test_suite.pc = "constructed"
    /\ test_suite.next > Len(MainOrder)
    /\ LET test_results == test_suite.test_results
           names == DOMAIN test_results
           loop == SummaryLoop(test_results, names,
                               [test_summary |-> << >>, overall_pass |-> TRUE])
           certs == certifications(loop.test_summary, loop.overall_pass)
           data == report_data(now, test_results, loop.test_summary,
                               loop.overall_pass, certs)
           dumped == \A n \in names : ~test_results[n].numpy_bool
       IN test_suite' =
            [pc |-> IF dumped THEN "returned" ELSE "raised",
             computed |-> test_suite.computed,
             runs |-> test_suite.runs,
             test_results |-> test_results,
             next |-> test_suite.next,
             previous |-> test_suite.previous,
             printed |->
                 [status |-> IF loop.overall_pass THEN "SYSTEM APPROVED"
                             ELSE "CONDITIONAL APPROVAL",
                  tests_passed |-> SumValues(loop.test_summary, names),
                  tests |-> Cardinality(names),
                  ready |-> {c \in DOMAIN certs : certs[c]}],
             report_data |-> data,
             file |-> [test_date |-> data.test_date, complete |-> dumped]]
    /\ UNCHANGED <<pulse_jump, controller, observed, validation, now, others>>

\* time passes
Tick ==
    /\ now < MaxClock
    /\ now' = now + 1
    /\ UNCHANGED <<pulse_jump, controller, observed, validation, test_suite, others>>

\* the script is run again: what the earlier run printed, built and wrote
\* is kept for comparison
RunAgain ==
    /\ test_suite.pc \in {"returned", "raised"}
    /\ test_suite.runs < MaxRuns
    /\ test_suite' =
         Constructed(test_suite.computed, test_suite.runs + 1,
                     Some([pc |-> test_suite.pc,
                           printed |-> test_suite.printed,
                           report_data |-> test_suite.report_data,
                           file |-> test_suite.file]))
    /\ UNCHANGED <<pulse_jump, controller, observed, validation, now, others>>

NextReport ==
    \/ RunTest
    \/ StoreUnjudged
    \/ GenerateTestReport
    \/ Tick
    \/ RunAgain

SpecReport == InitReport /\ [][NextReport]_vars

(***************************************************************************)
(* analyze_all_pulse_patterns, lines 194-230.  Each call of                *)
(* simulate_pulse_jump is taken by its returned max_height (in mm): either *)
(* the table the simulation above computes, or any table over              *)
(* HeightInputs, which is where equal heights occur.                       *)
(***************************************************************************)
\* self.pulse_patterns.items(): the keys in the order of lines 49-52
pulse_pattern_items ==
    <<"Single_Boost", "Resonant_Pumping", "Staircase_Climbing", "Tesla_369_Resonance">>

\* max_height of simulate_pulse_jump(p): the whole loop, then line 166
SimulatedMaxHeight(p) ==
    LET fresh == [height |-> FreshHeight(np_zeros), velocity |-> np_zeros,
                  acceleration |-> np_zeros, force |-> np_zeros,
                  current_profile |-> np_zeros]
    IN np_max(LoopPasses(fresh, p, FromField, 0, time_steps - 1).height)

\* heights in mm on either side of the thresholds of lines 211-215
HeightInputs == {120, 180, 250, 350}

MaxHeightTables ==
    {[p \in pulse_patterns |-> SimulatedMaxHeight(p)]}
        \cup [pulse_patterns -> HeightInputs]

\* lines 211-218, max_height in mm
QuickAssessment(max_height) ==
    IF max_height > 300 THEN "EXCEEDS 1 FOOT!"
    ELSE IF max_height > 200 THEN "EXCELLENT"
    ELSE IF max_height > 150 THEN "GOOD"
    ELSE "MARGINAL"

\* variant: a later key with an equal value replaces the best so far
RECURSIVE PyMaxFrom_lastOnTies(_, _, _, _)
PyMaxFrom_lastOnTies(keys, results, k, best) ==
    IF k > Len(keys) THEN best
    ELSE PyMaxFrom_lastOnTies(keys, results, k + 1,
                   IF results[keys[k]].max_height >= results[best].max_height
                   THEN keys[k] ELSE best)

\* max(keys, key=lambda x: results[x]['max_height']) from position k on,
\* best being the maximum so far: a key replaces it only if strictly greater
RECURSIVE PyMaxFrom(_, _, _, _)
PyMaxFrom(keys, results, k, best) ==
    IF k > Len(keys) THEN best
    ELSE PyMaxFrom(keys, results, k + 1,
                   IF results[keys[k]].max_height > results[best].max_height
                   THEN keys[k] ELSE best)

InitAnalyze ==
    /\ NoSimulator
    /\ controller = ConstructedController
    /\ observed = NoCall
    /\ validation = [pc |-> "idle", mass |-> MV_mass]
    /\ test_suite = [pc |-> "idle"]
    /\ now = 0
    /\ analysis \in {[pc |-> "loop", simulated |-> t, next |-> 1,
                       calls |-> << >>, keys |-> << >>, results |-> << >>,
                       printed |-> << >>] : t \in MaxHeightTables}
    /\ ai = [pc |-> "idle"]
    /\ miller = [pc |-> "idle"]

\* one pass of the loop of lines 203-220
AnalyzePattern ==
    /\ analysis.pc = "loop"
    /\ analysis.next <= Len(pulse_pattern_items)
    /\ LET pattern_name == pulse_pattern_items[analysis.next]
           simulated == [max_height |-> analysis.simulated[pattern_name]]
       IN analysis' =
            [analysis EXCEPT
               !.next = @ + 1,
               !.calls = Append(@, pattern_name),
               !.keys = IF pattern_name \in DOMAIN analysis.results THEN @
                        ELSE Append(@, pattern_name),
               !.results = Store(@, pattern_name, simulated),
               !.printed = Append(@, QuickAssessment(simulated.max_height))]
    /\ UNCHANGED <<pulse_jump, controller, observed, validation, test_suite,
                   now, ai, miller>>

\* lines 222-230
FindBestPattern ==
    /\ analysis.pc = "loop"
    /\ analysis.next > Len(pulse_pattern_items)
    /\ LET best_pattern == PyMaxFrom(analysis.keys, analysis.results, 2,
                                     analysis.keys[1])
       IN analysis' =
            [pc |-> "returned",
             simulated |-> analysis.simulated,
             next |-> analysis.next,
             calls |-> analysis.calls,
             keys |-> analysis.keys,
             results |-> analysis.results,
             printed |-> analysis.printed,
             best_pattern |-> best_pattern,
             best_height |-> analysis.results[best_pattern].max_height]
    /\ UNCHANGED <<pulse_jump, controller, observed, validation, test_suite,
                   now, ai, miller>>

NextAnalyze ==
    \/ AnalyzePattern
    \/ FindBestPattern

SpecAnalyze == InitAnalyze /\ [][NextAnalyze]_vars

(***************************************************************************)
(* mhm_levitation_miller_math.py: the fraction helpers, called by any      *)
(* caller with integers of small magnitude (Python integers are exact at   *)
(* any magnitude), and the current sweep of calculate_miller_levitation,   *)
(* lines 98-111, one pass of its loop at a time.  The force loop of lines  *)
(* 113-156 is not modelled: its numbers (mu_denominator = 9999999999) lie  *)
(* beyond the integers of the model checker.                               *)
(***************************************************************************)
\* variant: the denominators are added
miller_multiply_addDen(a_num, a_den, b_num, b_den) ==
    <<a_num * b_num, a_den + b_den>>

\* lines 56-58
miller_multiply(a_num, a_den, b_num, b_den) == <<a_num * b_num, a_den * b_den>>

\* lines 60-62
miller_divide(a_num, a_den, b_num, b_den) == <<a_num * b_den, a_den * b_num>>

\* lines 64-68
miller_add(a_num, a_den, b_num, b_den) ==
    LET num == a_num * b_den + b_num * a_den
        den == a_den * b_den
    IN <<num, den>>

\* lines 70-72
miller_square(num, den) == <<num * num, den * den>>

\* the last current of the sweep: range(1, 151)
MM_last_current == 150

\* lines 101-111: the entry appended for the current number k
MillerCurrent(k) ==
    IF k < 10 THEN <<k, 1>>
    ELSE LET tens == k \div 10
             ones == k % 10
             miller_value == IF ones = 0 THEN (tens - 1) * 9 + 9
                             ELSE tens * 9 + ones
         IN <<miller_value, 1>>

\* bound on the magnitude of the numerators and denominators passed to
\* the helpers
FracRange == 2

Numerators == (-FracRange) .. FracRange

Denominators == Numerators \ {0}

InitMiller ==
    /\ NoSimulator
    /\ controller = ConstructedController
    /\ observed = NoCall
    /\ validation = [pc |-> "idle", mass |-> MV_mass]
    /\ test_suite = [pc |-> "idle"]
    /\ now = 0
    /\ analysis = [pc |-> "idle"]
    /\ ai = [pc |-> "idle"]
    /\ miller = [pc |-> "constructed", call |-> NoCall]

\* a call of one of the two-fraction helpers.  The helpers read and write no
\* attribute, so a call does not depend on the calls before it: one call
\* per run is followed.
MillerBinaryCall ==
    \E op \in {"miller_multiply", "miller_divide", "miller_add"},
       a_num \in Numerators, a_den \in Denominators,
       b_num \in Numerators, b_den \in Denominators :
        /\ miller.pc = "constructed"
        /\ miller.call = NoCall
        /\ op = "miller_divide" => b_num # 0
        /\ miller' =
             [miller EXCEPT !.call =
                [op |-> op, a |-> <<a_num, a_den>>, b |-> <<b_num, b_den>>,
                 returned |->
                    CASE op = "miller_multiply" ->
                            miller_multiply(a_num, a_den, b_num, b_den)
                      [] op = "miller_divide" ->
                            miller_divide(a_num, a_den, b_num, b_den)
                      [] op = "miller_add" ->
                            miller_add(a_num, a_den, b_num, b_den)]]
        /\ UNCHANGED <<pulse_jump, controller, observed, validation, test_suite,
                       now, analysis, ai>>

\* a call of miller_square
MillerSquareCall ==
    \E num \in Numerators, den \in Denominators :
        /\ miller.pc = "constructed"
        /\ miller.call = NoCall
        /\ miller' =
             [miller EXCEPT !.call =
                [op |-> "miller_square", a |-> <<num, den>>, b |-> <<num, den>>,
                 returned |-> miller_square(num, den)]]
        /\ UNCHANGED <<pulse_jump, controller, observed, validation, test_suite,
                       now, analysis, ai>>

\* calculate_miller_levitation is entered: line 98
StartSweep ==
    /\ miller.pc = "constructed"
    /\ miller' = [pc |-> "sweep", call |-> NoCall, i |-> 1, currents_miller |-> << >>]
    /\ UNCHANGED <<pulse_jump, controller, observed, validation, test_suite,
                   now, analysis, ai>>

\* one pass of the loop of lines 99-111
SweepPass ==
    /\ miller.pc = "sweep"
    /\ miller.i <= MM_last_current
    /\ miller' = [miller EXCEPT
                    !.currents_miller = Append(@, MillerCurrent(miller.i)),
                    !.i = @ + 1]
    /\ UNCHANGED <<pulse_jump, controller, observed, validation, test_suite,
                   now, analysis, ai>>

\* the loop has ended
SweepEnd ==
    /\ miller.pc = "sweep"
    /\ miller.i > MM_last_current
    /\ miller' = [miller EXCEPT !.pc = "swept"]
    /\ UNCHANGED <<pulse_jump, controller, observed, validation, test_suite,
                   now, analysis, ai>>

NextMiller ==
    \/ MillerBinaryCall
    \/ MillerSquareCall
    \/ StartSweep
    \/ SweepPass
    \/ SweepEnd

SpecMiller == InitMiller /\ [][NextMiller]_vars

(***************************************************************************)
(* mhm_ac_ai_control_system.py: ai_control_algorithm called by any caller  *)
(* with complete sensor data.  Values are in thousandths.  The weights     *)
(* drawn by np.random.uniform are not enumerated entry by entry: each      *)
(* matrix holds one value of -limit, 0 or limit in all its entries.        *)
(***************************************************************************)
neural_network_layers == <<18, 32, 16, 9>>

\* self.sensor_inputs, lines 40-49
sensor_inputs ==
    [imu_accel |-> 3, imu_gyro |-> 3, imu_mag |-> 3, distance |-> 4,
     current |-> 9, temperature |-> 9, voltage |-> 3, power |-> 1]

coil_outputs == 9

\* the entries of the array of lines 144-179, in order: the key read, what
\* is subtracted from the reading and what it is divided by.  Readings are
\* in 0.1 m/s^2, deg/s, uT, cm, A, degrees C, V and W.
NormalizedEntries ==
    <<  <<"accel_x", 0, 981>>, <<"accel_y", 0, 981>>, <<"accel_z", 0, 981>>,
        <<"gyro_x", 0, 500>>, <<"gyro_y", 0, 500>>, <<"gyro_z", 0, 500>>,
        <<"mag_x", 0, 100>>, <<"mag_y", 0, 100>>, <<"mag_z", 0, 100>>,
        <<"dist_front", 0, 50>>, <<"dist_back", 0, 50>>,
        <<"dist_left", 0, 50>>, <<"dist_right", 0, 50>> >>
    \o [k \in 1 .. 9 |-> <<"current_" \o ToString(k - 1), 0, 50>>]
    \o [k \in 1 .. 9 |-> <<"temp_" \o ToString(k - 1), 20, 80>>]
    \o <<  <<"voltage_a", 0, 260>>, <<"voltage_b", 0, 260>>,
           <<"voltage_c", 0, 260>>, <<"total_power", 0, 1000>> >>

SensorKeys == {NormalizedEntries[k][1] : k \in DOMAIN NormalizedEntries}

\* normalize_sensor_data(sensor_data), lines 141-181: the row of the
\* (1, n) array
normalize_sensor_data(sensor_data) ==
    [k \in DOMAIN NormalizedEntries |->
        LET entry == NormalizedEntries[k]
        IN TDiv((sensor_data[entry[1]] - entry[2]) * 1000, entry[3])]

\* sum of the entries of a row
RECURSIVE RowSum(_, _)
RowSum(row, k) == IF k = 0 THEN 0 ELSE row[k] + RowSum(row, k - 1)

\* np.sqrt(6.0 / (fan_in + fan_out)), line 71
XavierLimit(fan_in, fan_out) == SqrtSearch(6000000 \div (fan_in + fan_out), 0, 2000)

\* initialize_neural_network, lines 62-76: W1..W3 with their shapes, every
\* entry of W_l being sign * limit_l; the biases are zero
initialize_neural_network(sign) ==
    [l \in 1 .. (Len(neural_network_layers) - 1) |->
        LET fan_in == neural_network_layers[l]
            fan_out == neural_network_layers[l + 1]
        IN [fan_in |-> fan_in, fan_out |-> fan_out,
            w |-> sign * XavierLimit(fan_in, fan_out), b |-> 0]]

\* 1 / (1 + np.exp(-z)), line 197, by the rational function
\* 1/2 + z / (2 * (1 + |z|)), which has the same range, monotonicity and
\* value at 0
Sigmoid(z) == 500 + TDiv(z * 1000, 2 * (1000 + Abs(z)))

\* np.dot(a, W) + b for a row a, lines 189: the shapes must agree
DotDefined(a, layer) == Len(a) = layer.fan_in

Dot(a, layer) ==
    [j \in 1 .. layer.fan_out |->
        TDiv(RowSum(a, Len(a)) * layer.w, 1000) + layer.b]

\* forward_propagation(inputs), lines 183-201, from layer l on, a being
\* activations[-1]: the output row, or the ValueError of np.dot
RECURSIVE ForwardFrom(_, _, _)
ForwardFrom(weights, a, l) ==
    IF l > Len(weights) THEN [raised |-> FALSE, output |-> a]
    ELSE IF ~DotDefined(a, weights[l])
         THEN [raised |-> TRUE, error |-> "ValueError", layer |-> l, got |-> Len(a)]
         ELSE LET z == Dot(a, weights[l])
                  act == IF l < Len(weights)
                         THEN [j \in DOMAIN z |-> Max(0, z[j])]
                         ELSE [j \in DOMAIN z |-> Sigmoid(z[j])]
              IN ForwardFrom(weights, act, l + 1)

\* readings at the bottom, the middle and the top of each sensor range,
\* chosen per group of sensors
Levels == 0 .. 2

SensorData(imu, dist, coil, supply) ==
    [key \in SensorKeys |->
        LET k == CHOOSE n \in DOMAIN NormalizedEntries :
                          NormalizedEntries[n][1] = key
            entry == NormalizedEntries[k]
            level == IF k <= 9 THEN imu
                     ELSE IF k <= 13 THEN dist
                     ELSE IF k <= 31 THEN coil
                     ELSE supply
        IN entry[2] + (entry[3] * level) \div 2]

InitAI ==
    /\ NoSimulator
    /\ controller = ConstructedController
    /\ observed = NoCall
    /\ validation = [pc |-> "idle", mass |-> MV_mass]
    /\ test_suite = [pc |-> "idle"]
    /\ now = 0
    /\ analysis = [pc |-> "idle"]
    /\ miller = [pc |-> "idle"]
    /\ ai \in {[pc |-> "constructed", weights |-> initialize_neural_network(sign)] :
                  sign \in {-1, 0, 1}}

\* ai_control_algorithm(sensor_data), lines 123-139
AiControlAlgorithm ==
    \E imu \in Levels, dist \in Levels, coil \in Levels, supply \in Levels :
        LET sensor_data == SensorData(imu, dist, coil, supply)
            normalized_inputs == normalize_sensor_data(sensor_data)
            forward == ForwardFrom(ai.weights, normalized_inputs, 1)
        IN /\ ai.pc \in {"constructed", "returned", "raised"}
           /\ ai' =
                 IF forward.raised
                 THEN [pc |-> "raised", weights |-> ai.weights,
                       normalized_inputs |-> normalized_inputs,
                       error |-> forward.error, layer |-> forward.layer]
                 ELSE [pc |-> "returned", weights |-> ai.weights,
                       normalized_inputs |-> normalized_inputs,
                       coil_commands |->
                           [j \in DOMAIN forward.output |->
                               np_clip(forward.output[j], 0, 1000)]]
           /\ UNCHANGED <<pulse_jump, controller, observed, validation,
                          test_suite, now, analysis, miller>>

NextAI == AiControlAlgorithm

SpecAI == InitAI /\ [][NextAI]_vars

(***************************************************************************)
(* Properties.  Written : the steps the current call has executed.         *)
(***************************************************************************)
Written == 0 .. (i - 1)

\* height the forward integration of step k proposes, before the clamp
Forward(k) == At(height, k-1) + MulDt(At(velocity, k-1))

\* a height in mm as <<km, mm>>
KmMm(h) == <<h \div 1000000, h % 1000000>>

\* C1: at every executed step k the recorded net force is the lift of the
\* field at the height recorded for that same step k, with that step's
\* current multiplier, minus the weight.
C1_ForceAtCurrentHeight ==
    \A k \in Written :
        At(force, k) = calculate_lift_force(
                       calculate_field_at_distance(At(height, k),
                           At(current_profile, k), TRUE).B_total) - weight

\* C2: for every step k >= 1 whose forward-integrated height is below the
\* floor, the recorded height is the floor exactly and the recorded velocity
\* is zero.
C2_GroundClamp ==
    \A k \in Written \ {0} :
        Forward(k) < min_height => At(height, k) = min_height /\ At(velocity, k) = 0

C2_Witness ==
    \E k \in Written \ {0} :
        /\ Forward(k) < min_height
        /\ At(velocity, k-1) < 0
        /\ At(height, k) = min_height

\* C3: if the net force is zero at every executed step, the velocity is zero
\* and the height is the initial height at every executed step, and the
\* final height printed at the end equals the initial height.
C3_SteadyState ==
    (\A k \in Written : At(force, k) = 0) =>
        /\ \A k \in Written : At(velocity, k) = 0 /\ At(height, k) = initial_height
        /\ pc = "done" => printed.final_height = initial_height

C3_Witness ==
    /\ pc = "done"
    /\ \A k \in Steps : At(force, k) = 0
    /\ printed.final_height = initial_height

\* C4: the returned energy_height is at least the returned max_height.
C4_EnergyBookkeeping ==
    pc = "done" => LexLE(KmMm(result.max_height), result.energy_height)

C4_Witness ==
    /\ pc = "done"
    /\ result.max_height > initial_height
    /\ LexLE(KmMm(result.max_height), result.energy_height)

\* C5: in the Single_Boost run the peak height exceeds the initial 5 cm and
\* the peak is attained within the boost window (0.5 s .. 0.6 s) or shortly
\* after it ends; "shortly" is read as within five window lengths (0.5 s).
C5_PeakNearBoost ==
    (pc = "done" /\ pattern = "Single_Boost") =>
        /\ printed.max_height > initial_height
        /\ 50000 <= printed.max_height_time
        /\ printed.max_height_time <= 60000 + 5 * 10000

\* C6: in the Single_Boost run the final height at the end of the 2 s run
\* is strictly below the peak height.
C6_DecayAfterBoost ==
    (pc = "done" /\ pattern = "Single_Boost") =>
        printed.final_height < printed.max_height

\* C7: a call with the same pulse pattern as the preceding call on the same
\* object records, step by step, the same height, velocity, force and
\* current multiplier, and returns the same series.
C7_Deterministic ==
    (pc \in {"loop", "done"} /\ prev.pattern = pattern) =>
        /\ \A k \in Written :
              /\ At(height, k) = At(prev.height, k)
              /\ At(velocity, k) = At(prev.velocity, k)
              /\ At(force, k) = At(prev.force, k)
              /\ At(current_profile, k) = At(prev.current, k)
        /\ pc = "done" =>
              /\ result.height = prev.height
              /\ result.velocity = prev.velocity
              /\ result.force = prev.force
              /\ result.current = prev.current

C7_Witness ==
    /\ pc = "done"
    /\ prev.pattern = pattern
    /\ pattern = "Resonant_Pumping"
    /\ result.force = prev.force

\* C8: calculate_lift_force is non-decreasing in |B| and is 0 at B = 0, in
\* both scripts that define it.
C8_LiftMonotone ==
    probe.applied =>
        /\ Abs(probe.B1) <= Abs(probe.B2) =>
              probe.F1 <= probe.F2 /\ probe.G1 <= probe.G2
        /\ probe.B1 = 0 => probe.F1 = 0 /\ probe.G1 = 0

C8_Witness ==
    /\ probe.applied
    /\ probe.B2 < 0
    /\ Abs(probe.B1) < Abs(probe.B2)
    /\ probe.F1 < probe.F2
    /\ probe.G1 < probe.G2

\* C9: for each of the four pulse patterns, the current multiplier recorded
\* at every executed step lies in [0, 1].
C9_MultiplierRange ==
    pattern \in PatternNames =>
        \A k \in Written : 0 <= At(current_profile, k) /\ At(current_profile, k) <= 1000

C9_Witness ==
    /\ pc = "done"
    /\ pattern = "Single_Boost"
    /\ \E k \in Steps : At(current_profile, k) = 1000
    /\ \E k \in Steps : At(current_profile, k) = 150

\* C10: for every step k >= 1 that is not clamped, velocity[k] is
\* velocity[k-1] + acceleration[k-1]*dt and height[k] is
\* height[k-1] + velocity[k-1]*dt, the velocity of the previous step.
C10_EulerOrder ==
    \A k \in Written \ {0} :
        Forward(k) >= min_height =>
            /\ At(velocity, k) = At(velocity, k-1) + MulDt(At(acceleration, k-1))
            /\ At(height, k) = At(height, k-1) + MulDt(At(velocity, k-1))

C10_Witness ==
    \E k \in Written \ {0} :
        /\ Forward(k) >= min_height
        /\ At(velocity, k-1) # 0
        /\ At(velocity, k) # At(velocity, k-1)
        /\ At(height, k) = At(height, k-1) + MulDt(At(velocity, k-1))

\* C11 as stated: simulate_pulse_jump never raises, whatever pulse_pattern
\* value it is given.
C11_NoErrorOutcome == pc # "raised"

\* C11 as amended: for each of the four pattern names of pulse_patterns the
\* call never raises, and when it has returned it has run every time step
\* and handed back a dict.
C11_NoErrorForKnownPattern ==
    pattern \in pulse_patterns =>
        /\ pc # "raised"
        /\ pc = "done" => i = time_steps /\ "max_height" \in DOMAIN result

C11_Witness ==
    /\ pc = "done"
    /\ pattern = "Tesla_369_Resonance"
    /\ i = time_steps
    /\ "max_height" \in DOMAIN result

\* C12 as stated: the returned dict holds the four series and all four
\* summary statistics (maximum height, time of maximum, final height,
\* energy-equivalent height).
C12_ResultHasAllStatistics ==
    pc = "done" =>
        {"height", "velocity", "force", "current", "max_height",
         "max_height_time", "final_height", "energy_height"}
            \subseteq DOMAIN result

\* C12 as amended: the returned dict holds the time, height, velocity, force
\* and current series in full and, of the statistics, the maximum height and
\* the energy-equivalent height; the time of the maximum and the final
\* height are printed, and are those of the returned height series.
C12_ReturnedAndPrinted ==
    pc = "done" =>
        /\ {"time", "height", "velocity", "force", "current", "max_height",
            "energy_height"} \subseteq DOMAIN result
        /\ result.height = height
        /\ result.velocity = velocity
        /\ result.force = force
        /\ result.current = current_profile
        /\ \A k \in Steps : At(result.height, k) <= result.max_height
        /\ DOMAIN printed = {"max_height", "max_height_time", "final_height",
                             "energy_height"}
        /\ printed.max_height = result.max_height
        /\ printed.energy_height = result.energy_height
        /\ printed.final_height = At(result.height, time_steps - 1)
        /\ \E k \in Steps : /\ At(result.time, k) = printed.max_height_time
                             /\ At(result.height, k) = result.max_height

C12_Witness ==
    /\ pc = "done"
    /\ pattern = "Staircase_Climbing"
    /\ "energy_height" \in DOMAIN result
    /\ "final_height" \in DOMAIN printed
    /\ printed.final_height = At(result.height, time_steps - 1)

C16_RotatingTriangle ==
    observed.op = "get_active_coils" =>
        \A step \in StepInputs :
            LET a == observed.active_indices[step]
            IN /\ Len(a) = 3
               /\ Cardinality(Range(a)) = 3
               /\ Range(a) \subseteq Coils
               /\ a[1] < a[2] /\ a[2] < a[3]
               /\ a[2] - a[1] = 3 /\ a[3] - a[2] = 3
               /\ \A x \in Range(a), y \in Range(a) : x % 3 = y % 3
               /\ (step * controller.rotation_direction) % RTC_num_coils \in Range(a)

C16_Witness ==
    /\ observed.op = "get_active_coils"
    /\ controller.rotation_direction = 1
    /\ observed.active_indices[-4] = <<2, 5, 8>>
    /\ observed.active_indices[9] = <<0, 3, 6>>

\* C17: in every controller state and for every step, the 6 coils outside
\* the active triangle carry exactly zero current and the current of each
\* active coil is non-negative; the same holds of every waveform sample.
C17_InactiveCoilsCarryNoCurrent ==
    /\ observed.op = "calculate_coil_currents" =>
          \A step \in StepInputs :
              LET active == Range(get_active_coils(controller, step))
                  row == observed.currents[step]
              IN /\ Cardinality(Coils \ active) = 6
                 /\ \A c \in Coils \ active : row[c] = 0
                 /\ \A c \in active : row[c] >= 0
    /\ observed.op = "generate_pwm_waveform" =>
          \A k \in DOMAIN observed.coil_currents :
              \A c \in Coils :
                  /\ observed.coil_currents[k][c] >= 0
                  /\ observed.active_pattern[k][c] = 0
                        => observed.coil_currents[k][c] = 0

C17_Witness ==
    /\ observed.op = "calculate_coil_currents"
    /\ controller.global_amplitude = 600
    /\ controller.pitch = 1000
    /\ controller.roll = -1000
    /\ observed.currents[1][1] > 0
    /\ observed.currents[1][0] = 0
    /\ observed.currents[1][2] = 0

\* C18: over any 9 consecutive steps every coil is active in exactly 3 of
\* them, and at every step (and at every sample of a generated waveform)
\* exactly 3 of the 9 coils are active.
C18_DutyCycle ==
    /\ observed.op = "get_active_coils" =>
          /\ \A step \in StepInputs :
                Cardinality(Range(observed.active_indices[step])) = 3
          /\ \A first \in StepInputs :
                first + RTC_num_coils - 1 \in StepInputs =>
                    \A c \in Coils :
                        Cardinality({step \in first .. (first + RTC_num_coils - 1) :
                                        c \in Range(observed.active_indices[step])}) = 3
    /\ observed.op = "generate_pwm_waveform" =>
          \A k \in DOMAIN observed.active_pattern :
              Cardinality({c \in Coils : observed.active_pattern[k][c] = 1}) = 3

C18_Witness ==
    /\ observed.op = "get_active_coils"
    /\ controller.rotation_direction = -1
    /\ {step \in 0 .. 8 : 4 \in Range(observed.active_indices[step])} = {2, 5, 8}

C14_MinimumCurrentSearch ==
    validation.pc \in {"returned", "finished"} =>
        LET r == validation.results
            qualifying == {k \in SweepIndex : r.F_lift[k] >= r.force_needed}
        IN /\ r.force_needed = force_needed(validation.mass)
           /\ qualifying # {} =>
                 /\ ~r.required_current.none
                 /\ \E k \in qualifying : r.required_current.value = r.currents[k]
                 /\ \A k \in qualifying : r.required_current.value <= r.currents[k]
                 /\ validation.printed = "MAINSTREAM PHYSICS RESULTS"
           /\ qualifying = {} =>
                 /\ r.required_current = PyNone
                 /\ validation.printed = "Current range insufficient for lift!"
           /\ validation.pc = "finished" =>
                 (validation.key_finding <=> ~r.required_current.none)

C14_Witness ==
    /\ validation.pc = "finished"
    /\ validation.results.required_current = PyNone
    /\ \A k \in SweepIndex :
          validation.results.F_lift[k] < validation.results.force_needed
    /\ ~validation.key_finding

C20_VerdictAggregation ==
    test_suite.pc \in {"returned", "raised"} =>
        LET tr == test_suite.report_data.test_results
            has(n, k) == k \in DOMAIN tr[n].fields
            passes(n) ==
                \/ has(n, "overall_pass") /\ tr[n].fields["overall_pass"]
                \/ /\ ~has(n, "overall_pass")
                   /\ has(n, "sil_compliant")
                   /\ tr[n].fields["sil_compliant"]
                \/ ~has(n, "overall_pass") /\ ~has(n, "sil_compliant")
            passing == {n \in DOMAIN tr : passes(n)}
        IN /\ tr = test_suite.test_results
           /\ test_suite.report_data.overall_pass <=> (passing = DOMAIN tr)
           /\ (test_suite.printed.status = "SYSTEM APPROVED") <=> (passing = DOMAIN tr)
           /\ DOMAIN test_suite.report_data.test_summary = DOMAIN tr
           /\ \A n \in DOMAIN tr :
                 test_suite.report_data.test_summary[n] <=> passes(n)
           /\ test_suite.printed.tests_passed = Cardinality(passing)
           /\ test_suite.printed.tests = Cardinality(DOMAIN tr)
           /\ test_suite.report_data.certification_readiness.CE_Marking
                 => (passing = DOMAIN tr)
           /\ ("CE_Marking" \in test_suite.printed.ready)
                 <=> test_suite.report_data.certification_readiness.CE_Marking

C20_Witness ==
    /\ test_suite.pc \in {"returned", "raised"}
    /\ "ISO_9001" \in DOMAIN test_suite.test_results
    /\ ~test_suite.computed["DO_160"]
    /\ ~test_suite.computed["IEC_61508"]
    /\ test_suite.computed["IEC_61000"]
    /\ ~test_suite.report_data.overall_pass
    /\ test_suite.printed.tests_passed = 5
    /\ test_suite.printed.tests = 7
    /\ ~test_suite.report_data.certification_readiness.CE_Marking

\* C25: once a call has initialised the arrays, height[0] and every height
\* recorded by a later pass (after the clamp) is at least 1 mm, whatever
\* the pattern and the net forces; in particular the height that
\* Resonant_Pumping divides by in the next pass, height[max(0, i-1)], is
\* strictly positive.
C25_FloorInvariant ==
    pc \in {"loop", "done"} =>
        /\ \A k \in Written \cup {0} : At(height, k) >= min_height
        /\ i < time_steps => At(height, Max(0, i - 1)) > 0

C25_Witness ==
    /\ pc = "loop"
    /\ pattern = "Resonant_Pumping"
    /\ \E k \in Written \ {0} :
          /\ Forward(k) < 0
          /\ At(height, k) = min_height
          /\ k + 1 \in Written
          /\ At(current_profile, k + 1) >= 150

\* C24: analyze_all_pulse_patterns simulates each of the four named
\* patterns exactly once, in declaration order; the result map holds one
\* entry per pattern; the best pattern reported has the greatest
\* max_height, and is the earliest-declared of those that have it.
C24_BestPattern ==
    analysis.pc = "returned" =>
        LET position(p) == CHOOSE k \in 1 .. 4 : pulse_pattern_items[k] = p
            best == analysis.best_pattern
        IN /\ analysis.calls = pulse_pattern_items
           /\ \A p \in pulse_patterns :
                 Cardinality({k \in DOMAIN analysis.calls : analysis.calls[k] = p}) = 1
           /\ DOMAIN analysis.results = pulse_patterns
           /\ \A p \in pulse_patterns :
                 analysis.results[p].max_height = analysis.simulated[p]
           /\ best \in pulse_patterns
           /\ analysis.best_height = analysis.results[best].max_height
           /\ \A p \in pulse_patterns :
                 /\ analysis.results[p].max_height <= analysis.best_height
                 /\ position(p) < position(best)
                       => analysis.results[p].max_height < analysis.best_height

C24_Witness ==
    /\ analysis.pc = "returned"
    /\ analysis.best_pattern = "Resonant_Pumping"
    /\ analysis.simulated["Single_Boost"] = 120
    /\ analysis.simulated["Resonant_Pumping"] = 350
    /\ analysis.simulated["Staircase_Climbing"] = 250
    /\ analysis.simulated["Tesla_369_Resonance"] = 350

\* n >= 1 is written in decimal with the digits 1-9 only
RECURSIVE ZeroFree(_)
ZeroFree(n) ==
    IF n <= 0 THEN FALSE
    ELSE IF n < 10 THEN TRUE
    ELSE n % 10 # 0 /\ ZeroFree(n \div 10)

\* C22: every current value the sweep of calculate_miller_levitation
\* generates, numerator and denominator, is written in decimal with the
\* digits 1-9 only.
C22_ZeroFreeCurrents ==
    miller.pc \in {"sweep", "swept"} =>
        \A k \in DOMAIN miller.currents_miller :
            /\ ZeroFree(miller.currents_miller[k][1])
            /\ ZeroFree(miller.currents_miller[k][2])

\* n1/d1 and n2/d2 are the same rational number
SameValue(n1, d1, n2, d2) == d1 # 0 /\ d2 # 0 /\ n1 * d2 = n2 * d1

\* C23: the pair returned by miller_multiply, miller_divide, miller_add and
\* miller_square has the rational value of the product, quotient, sum and
\* square of the two input fractions: r = a*b, r*b = a, r - b = a, r = a*a,
\* with a non-zero denominator.
C23_ExactFractions ==
    (miller.pc = "constructed" /\ miller.call # NoCall) =>
        LET a == miller.call.a
            b == miller.call.b
            r == miller.call.returned
            op == miller.call.op
        IN /\ r[2] # 0
           /\ op \in {"miller_multiply", "miller_square"} =>
                 SameValue(r[1], r[2], a[1] * b[1], a[2] * b[2])
           /\ op = "miller_divide" =>
                 \* r * b = a
                 SameValue(r[1] * b[1], r[2] * b[2], a[1], a[2])
           /\ op = "miller_add" =>
                 \* r - b = a
                 SameValue(r[1] * b[2] - b[1] * r[2], r[2] * b[2], a[1], a[2])

C23_Witness ==
    /\ miller.pc = "constructed"
    /\ miller.call # NoCall
    /\ miller.call.op = "miller_divide"
    /\ miller.call.a = <<1, -2>>
    /\ miller.call.b = <<-2, 1>>
    /\ miller.call.returned = <<1, 4>>

\* C21: the normalized sensor vector has as many entries as the input
\* layer of the network (18), so ai_control_algorithm returns, and what it
\* returns is 9 coil commands, each within [0, 1].
C21_WellFormedForwardPass ==
    ai.pc \in {"returned", "raised"} =>
        /\ Len(ai.normalized_inputs) = neural_network_layers[1]
        /\ ai.pc = "returned"
        /\ Len(ai.coil_commands) = coil_outputs
        /\ \A j \in DOMAIN ai.coil_commands : ai.coil_commands[j] \in 0 .. 1000


====
